---- MODULE Spec2Model ----
(***************************************************************************)
(* Model of the fix_checksum crate (src/src/lib.rs).                       *)
(*                                                                         *)
(* A Rust &str is modelled as the sequence of its UTF-8 bytes (0..255).    *)
(* Positions named as in the source are 0-based byte offsets; the          *)
(* operators below convert to the 1-based indexing of TLA+ sequences.      *)
(* A panic of the Rust runtime (slice index out of range, slice index not  *)
(* on a char boundary) is an outcome of its own, "panic".                  *)
(***************************************************************************)
EXTENDS Integers, Sequences, FiniteSets, TLC

\* ------------------------------------------------------------------ bounds
\* Largest number of message parts a caller folds into one message.
MaxParts == 5

\* Longest byte suffix appended after the value window when two messages
\* with the same prefix are compared.
MaxSuffix == 1

\* --------------------------------------------------------------- constants
\* const FIX_MESSAGE_DELIMITER: char = '\x01';
FIX_MESSAGE_DELIMITER == <<1>>

\* const FIX_CHECKSUM_FIELD: &'static str = "\x31\x30\x3D";   ("10=")
FIX_CHECKSUM_FIELD == <<49, 48, 61>>

\* Result<bool, FIXChecksumValidatorError>, plus the runtime panic.
InvalidEmptyMessage == "InvalidEmptyMessage"
ChecksumFieldNotFound == "ChecksumFieldNotFound"
ChecksumFieldInvalidFormat == "ChecksumFieldInvalidFormat"
OkTrue == "Ok(true)"
OkFalse == "Ok(false)"
Panic == "panic"

\* Option::None of str::find, and Err(ParseIntError) of str::parse.
None == -1
ParseErr == -1

\* ----------------------------------------------------------- pure functions
RECURSIVE SumFirst(_, _)
\* The loop of checksum() after n iterations: cs += *b as u32 for each of the
\* first n bytes.  The u32 accumulator cannot overflow below 2^24 bytes, far
\* above the bounds here.
SumFirst(s, n) ==
  IF n = 0 THEN 0 ELSE SumFirst(s, n - 1) + s[n]

\* cs when the loop has run over message.as_bytes().
SumBytes(s) == SumFirst(s, Len(s))

\* A checksum reduced by the wrong modulus.
checksum_mod255(message) == SumBytes(message) % 255

\* fn checksum(message: &str) -> u32
checksum(message) == SumBytes(message) % 256

RECURSIVE to_string(_)
\* u32::to_string: the shortest decimal representation, no padding.
to_string(n) ==
  IF n < 10 THEN <<48 + n>>
  ELSE to_string(n \div 10) \o <<48 + (n % 10)>>

\* pub fn generate(outbound_message: &str) -> String
generate(outbound_message) == to_string(checksum(outbound_message))

\* s[a..b] as bytes, a and b 0-based, b exclusive.
Bytes(s, a, b) == SubSeq(s, a + 1, b)

\* str::is_char_boundary: 0 and len are boundaries, otherwise the byte at
\* idx must not be a UTF-8 continuation byte (0x80..0xBF).
is_char_boundary(s, idx) ==
  \/ idx = 0
  \/ idx = Len(s)
  \/ /\ idx < Len(s)
     /\ (s[idx + 1] < 128 \/ s[idx + 1] >= 192)

\* The condition under which &s[a..b] does not panic.
SliceOk(s, a, b) ==
  /\ a <= b
  /\ b <= Len(s)
  /\ is_char_boundary(s, a)
  /\ is_char_boundary(s, b)

IsDigit(b) == b >= 48 /\ b <= 57

RECURSIVE DigitsValue(_)
DigitsValue(d) ==
  IF d = <<>> THEN 0
  ELSE 10 * DigitsValue(SubSeq(d, 1, Len(d) - 1)) + (d[Len(d)] - 48)

\* str::parse::<u32>: an optional leading '+' followed by at least one
\* decimal digit and nothing else; '-' is not accepted for unsigned types.
\* Three bytes cannot overflow a u32.
parse_u32(src) ==
  IF src = <<>> THEN ParseErr
  ELSE LET digits == IF src[1] = 43 THEN Tail(src) ELSE src
       IN  IF digits = <<>> THEN ParseErr
           ELSE IF \A k \in 1..Len(digits) : IsDigit(digits[k])
                THEN DigitsValue(digits)
                ELSE ParseErr

\* pat occurs in s at 0-based byte offset i.
MatchAt(s, pat, i) ==
  /\ i + Len(pat) <= Len(s)
  /\ Bytes(s, i, i + Len(pat)) = pat

RECURSIVE find_from(_, _, _)
find_from(s, pat, i) ==
  IF i + Len(pat) > Len(s) THEN None
  ELSE IF MatchAt(s, pat, i) THEN i
  ELSE find_from(s, pat, i + 1)

RECURSIVE rfind_from(_, _, _)
rfind_from(s, pat, i) ==
  IF i < 0 THEN None
  ELSE IF MatchAt(s, pat, i) THEN i
  ELSE rfind_from(s, pat, i - 1)

\* A search that reports the last occurrence instead of the first.
find_last(s, pat) == rfind_from(s, pat, Len(s) - Len(pat))

\* A search that drops the leading delimiter of the pattern, so that the
\* tag also matches inside another field.
find_unanchored(s, pat) == find_from(s, Tail(pat), 0)

\* str::find(&pattern): offset of the first occurrence, or None.
find(s, pat) == find_from(s, pat, 0)

\* validate() without the emptiness test of its first line.
validate_noempty(inbound_message) ==
  LET tail_pattern == FIX_MESSAGE_DELIMITER \o FIX_CHECKSUM_FIELD
      tail_start == find(inbound_message, tail_pattern)
  IN  IF tail_start = None THEN ChecksumFieldNotFound
      ELSE
        LET split_index == tail_start + 1
            checksum_index_start == split_index + 3
            checksum_index_end == split_index + 6
            checksum_to_be == checksum(Bytes(inbound_message, 0, split_index))
        IN  IF ~SliceOk(inbound_message, checksum_index_start, checksum_index_end)
            THEN Panic
            ELSE
              LET checksum_as_is ==
                    parse_u32(Bytes(inbound_message, checksum_index_start,
                                    checksum_index_end))
              IN  IF checksum_as_is = ParseErr THEN ChecksumFieldInvalidFormat
                  ELSE IF checksum_as_is = checksum_to_be THEN OkTrue
                  ELSE OkFalse

\* validate() whose covered span stops before the delimiter.
validate_shortspan(inbound_message) ==
  IF inbound_message = <<>> THEN InvalidEmptyMessage
  ELSE
    LET tail_pattern == FIX_MESSAGE_DELIMITER \o FIX_CHECKSUM_FIELD
        tail_start == find(inbound_message, tail_pattern)
    IN  IF tail_start = None THEN ChecksumFieldNotFound
        ELSE
          LET split_index == tail_start + 1
              checksum_index_start == split_index + 3
              checksum_index_end == split_index + 6
              checksum_to_be == checksum(Bytes(inbound_message, 0, tail_start))
          IN  IF ~SliceOk(inbound_message, checksum_index_start, checksum_index_end)
              THEN Panic
              ELSE
                LET checksum_as_is ==
                      parse_u32(Bytes(inbound_message, checksum_index_start,
                                      checksum_index_end))
                IN  IF checksum_as_is = ParseErr THEN ChecksumFieldInvalidFormat
                    ELSE IF checksum_as_is = checksum_to_be THEN OkTrue
                    ELSE OkFalse

\* validate() that also insists on a delimiter right after the value.
validate_trailing(inbound_message) ==
  IF inbound_message = <<>> THEN InvalidEmptyMessage
  ELSE
    LET tail_pattern == FIX_MESSAGE_DELIMITER \o FIX_CHECKSUM_FIELD
        tail_start == find(inbound_message, tail_pattern)
    IN  IF tail_start = None THEN ChecksumFieldNotFound
        ELSE
          LET split_index == tail_start + 1
              checksum_index_start == split_index + 3
              checksum_index_end == split_index + 6
              checksum_to_be == checksum(Bytes(inbound_message, 0, split_index))
          IN  IF ~SliceOk(inbound_message, checksum_index_start, checksum_index_end)
              THEN Panic
              ELSE
                LET checksum_as_is ==
                      parse_u32(Bytes(inbound_message, checksum_index_start,
                                      checksum_index_end))
                IN  IF checksum_as_is = ParseErr THEN ChecksumFieldInvalidFormat
                    ELSE IF ~MatchAt(inbound_message, FIX_MESSAGE_DELIMITER,
                                     checksum_index_end)
                         THEN ChecksumFieldInvalidFormat
                    ELSE IF checksum_as_is = checksum_to_be THEN OkTrue
                    ELSE OkFalse

\* pub fn validate(inbound_message: &str)
\*   -> Result<bool, FIXChecksumValidatorError>
validate(inbound_message) ==
  IF inbound_message = <<>> THEN InvalidEmptyMessage
  ELSE
    LET tail_pattern == FIX_MESSAGE_DELIMITER \o FIX_CHECKSUM_FIELD
        tail_start == find(inbound_message, tail_pattern)
    IN  IF tail_start = None THEN ChecksumFieldNotFound
        ELSE
          LET split_index == tail_start + 1
              checksum_index_start == split_index + 3
              checksum_index_end == split_index + 6
              checksum_to_be == checksum(Bytes(inbound_message, 0, split_index))
          IN  IF ~SliceOk(inbound_message, checksum_index_start, checksum_index_end)
              THEN Panic
              ELSE
                LET checksum_as_is ==
                      parse_u32(Bytes(inbound_message, checksum_index_start,
                                      checksum_index_end))
                IN  IF checksum_as_is = ParseErr THEN ChecksumFieldInvalidFormat
                    ELSE IF checksum_as_is = checksum_to_be THEN OkTrue
                    ELSE OkFalse

\* ------------------------------------------------------------------- state
VARIABLES
  message,    \* the &str handed to generate and validate, as bytes
  nparts,     \* number of parts folded into message so far
  body,       \* the body a checksum field was appended to, when sealed
  sealed,     \* message = body ++ "10=" ++ generate(body) ++ delimiter
  generated,  \* what generate(message) returned, <<>> before the call
  outcome     \* what validate(message) returned, "none" before the call

vars == <<message, nparts, body, sealed, generated, outcome>>

\* The pieces a caller folds into a message: the delimiter, the checksum
\* tag, digits, a sign and a two-byte character (U+00E9, C3 A9).
Parts ==
  { FIX_MESSAGE_DELIMITER, FIX_CHECKSUM_FIELD,
    <<48>>, <<49>>, <<57>>, <<43>>, <<195, 169>> }

Init ==
  /\ message = <<>>
  /\ nparts = 0
  /\ body = <<>>
  /\ sealed = FALSE
  /\ generated = <<>>
  /\ outcome = "none"

\* brew_message's fold step: message + message_part.
AppendPart(part) ==
  /\ nparts < MaxParts
  /\ message' = message \o part
  /\ nparts' = nparts + 1
  /\ body' = <<>>
  /\ sealed' = FALSE
  /\ generated' = <<>>
  /\ outcome' = "none"

\* A call of generate(&message).  The functions are pure and share no state,
\* so one call per message is recorded: its argument and what it returned.
Generate ==
  /\ generated = <<>>
  /\ outcome = "none"
  /\ generated' = generate(message)
  /\ UNCHANGED <<message, nparts, body, sealed, outcome>>

\* The caller appends the checksum field it generated:
\* message + "10=" + generate(message) + "\x01".
Seal ==
  /\ nparts < MaxParts
  /\ generated # <<>>
  /\ message' = message \o FIX_CHECKSUM_FIELD \o generated \o FIX_MESSAGE_DELIMITER
  /\ nparts' = nparts + 1
  /\ body' = message
  /\ sealed' = TRUE
  /\ generated' = <<>>
  /\ outcome' = "none"

\* A call of validate(&message).
Validate ==
  /\ generated = <<>>
  /\ outcome = "none"
  /\ outcome' = validate(message)
  /\ UNCHANGED <<message, nparts, body, sealed, generated>>

Next ==
  \/ \E part \in Parts : AppendPart(part)
  \/ Generate
  \/ Seal
  \/ Validate

Spec == Init /\ [][Next]_vars

TypeOK ==
  /\ nparts \in 0..MaxParts
  /\ sealed \in BOOLEAN
  /\ outcome \in { "none", InvalidEmptyMessage, ChecksumFieldNotFound,
                   ChecksumFieldInvalidFormat, OkTrue, OkFalse, Panic }

\* ------------------------------------------------- vocabulary of the claims
\* The delimiter-anchored tag "\x01" "10=" starts at 0-based offset i.
Anchored(m, i) ==
  /\ i + 4 <= Len(m)
  /\ m[i + 1] = 1
  /\ m[i + 2] = 49
  /\ m[i + 3] = 48
  /\ m[i + 4] = 61

Occurrences(m) == { i \in 0..(Len(m) - 1) : Anchored(m, i) }

FirstOccurrence(m) ==
  LET occ == Occurrences(m)
  IN  CHOOSE i \in occ : \A j \in occ : i <= j

\* The 3 bytes after the "10=" of the tag at i all lie inside the message.
WindowComplete(m, i) == i + 7 <= Len(m)

\* Those bytes: the tag occupies m[i+1..i+4], the value m[i+5..i+7].
Window(m, i) == SubSeq(m, i + 5, i + 7)

\* Everything up to and including the delimiter of the tag at i.
CoveredSpan(m, i) == SubSeq(m, 1, i + 1)

AllDigits(w) == \A k \in 1..Len(w) : IsDigit(w[k])

\* Value of three decimal digits.
ThreeDigitValue(w) == 100 * (w[1] - 48) + 10 * (w[2] - 48) + (w[3] - 48)

Validated == outcome # "none"

Found == Occurrences(message) # {}

\* Well-formed UTF-8 over one- and two-byte characters.
IsLead2(b) == b >= 194 /\ b <= 223
IsCont(b) == b >= 128 /\ b <= 191
IsUtf8(s) ==
  \A k \in 1..Len(s) :
    \/ s[k] < 128
    \/ IsLead2(s[k]) /\ k < Len(s) /\ IsCont(s[k + 1])
    \/ IsCont(s[k]) /\ k > 1 /\ IsLead2(s[k - 1])

\* The bytes a message is continued with after the value window: the
\* delimiter, a digit, and the two bytes of U+00E9.
SuffixBytes == { 1, 48, 195, 169 }

RECURSIVE SeqsUpTo(_, _)
SeqsUpTo(S, n) ==
  IF n = 0 THEN { <<>> }
  ELSE LET shorter == SeqsUpTo(S, n - 1)
       IN  shorter \cup { t \o <<b>> : t \in shorter, b \in S }

Suffixes == SeqsUpTo(SuffixBytes, MaxSuffix)

\* ------------------------------------------------------------------ claims

\* C1: for every body b that ends in the delimiter 0x01, validating
\* b ++ "10=" ++ generate(b) ++ 0x01 returns Ok(true).
C1_RoundTrip ==
  (Validated /\ sealed /\ body # <<>> /\ body[Len(body)] = 1)
    => outcome = OkTrue

\* C2: generate returns exactly three decimal digits, the checksum of the
\* body (sum of bytes mod 256) left-padded with zeros.
C2_GenerateThreeDigits ==
  generated # <<>> =>
    /\ Len(generated) = 3
    /\ AllDigits(generated)
    /\ ThreeDigitValue(generated) = SumBytes(message) % 256

\* C3: when the anchored tag is found and fewer than 3 bytes follow it,
\* validate returns Err(ChecksumFieldInvalidFormat).
C3_ShortWindowIsFormatError ==
  (Validated /\ Found /\ ~WindowComplete(message, FirstOccurrence(message)))
    => outcome = ChecksumFieldInvalidFormat

\* C4: when the anchored tag is found and at least one of the 3 bytes after
\* it is not a decimal digit, validate returns
\* Err(ChecksumFieldInvalidFormat).
C4_NonDigitIsFormatError ==
  (Validated /\ Found) =>
    LET i == FirstOccurrence(message)
    IN  (WindowComplete(message, i) /\ ~AllDigits(Window(message, i)))
          => outcome = ChecksumFieldInvalidFormat

\* C5: for a non-empty message validate returns Err(ChecksumFieldNotFound)
\* exactly when no 0x01 immediately followed by "10=" occurs in it.
C5_NotFoundIffNoAnchoredTag ==
  (Validated /\ message # <<>>)
    => (outcome = ChecksumFieldNotFound <=> ~Found)

\* A "10=" that is part of another tag ("110=") was searched and not matched.
C5_Witness ==
  /\ outcome = ChecksumFieldNotFound
  /\ \E i \in 1..(Len(message) - 3) :
       /\ message[i] = 49
       /\ SubSeq(message, i + 1, i + 3) = FIX_CHECKSUM_FIELD

\* C6: when the anchored tag is found and the 3 bytes after it are decimal
\* digits with value v, validate returns Ok(true) if v equals the sum mod 256
\* of the bytes up to and including the tag's delimiter, and Ok(false)
\* otherwise, also when v is above 255.
C6_DigitsCompareWithSpan ==
  (Validated /\ Found) =>
    LET i == FirstOccurrence(message)
        v == ThreeDigitValue(Window(message, i))
    IN  (WindowComplete(message, i) /\ AllDigits(Window(message, i)))
          => outcome = IF v = SumBytes(CoveredSpan(message, i)) % 256
                       THEN OkTrue ELSE OkFalse

\* A three-digit value matched the checksum of a span whose byte sum wraps.
C6_Witness ==
  /\ outcome = OkTrue
  /\ Found
  /\ AllDigits(Window(message, FirstOccurrence(message)))
  /\ SumBytes(CoveredSpan(message, FirstOccurrence(message))) >= 256

\* A three-digit value above 255 was reported as a mismatch.
C6_WitnessAbove255 ==
  /\ outcome = OkFalse
  /\ Found
  /\ WindowComplete(message, FirstOccurrence(message))
  /\ AllDigits(Window(message, FirstOccurrence(message)))
  /\ ThreeDigitValue(Window(message, FirstOccurrence(message))) > 255

\* C7: validate returns Err(InvalidEmptyMessage) exactly when the input has
\* zero length.
C7_EmptyIffZeroLength ==
  Validated => (outcome = InvalidEmptyMessage <=> Len(message) = 0)

C7_Witness ==
  /\ outcome = InvalidEmptyMessage
  /\ message = <<>>

\* C8: checksum(a ++ b) = (checksum(a) + checksum(b)) mod 256 for every
\* split of a message a ++ b into a and b (either may be empty), and every
\* checksum lies in 0..255.
C8_ChecksumHomomorphism ==
  generated # <<>> =>
    LET cab == checksum(message)
    IN  /\ cab \in 0..255
        /\ \A k \in 0..Len(message) :
             LET ca == checksum(SubSeq(message, 1, k))
                 cb == checksum(SubSeq(message, k + 1, Len(message)))
             IN  /\ cab = (ca + cb) % 256
                 /\ ca \in 0..255
                 /\ cb \in 0..255

\* generate ran on a message whose byte sum is above 255.
C8_Witness ==
  /\ generated # <<>>
  /\ Len(message) >= 2
  /\ SumBytes(message) >= 256

\* C9: when the anchored tag occurs more than once, the first occurrence
\* decides: the covered span ends at its delimiter and the value is the 3
\* bytes after its "10=".
C9_FirstMatchWins ==
  (Validated /\ Cardinality(Occurrences(message)) >= 2) =>
       LET i == FirstOccurrence(message)
           w == Window(message, i)
       IN  /\ outcome # ChecksumFieldNotFound
           /\ AllDigits(w) =>
                outcome = IF ThreeDigitValue(w)
                               = SumBytes(CoveredSpan(message, i)) % 256
                          THEN OkTrue ELSE OkFalse
           /\ (\E k \in 1..3 : ~IsDigit(w[k]) /\ w[k] # 43) =>
                outcome \in { ChecksumFieldInvalidFormat, Panic }

\* A message with a second tag was accepted on the strength of the first.
C9_Witness ==
  /\ outcome = OkTrue
  /\ Cardinality(Occurrences(message)) >= 2

\* C10: the outcome depends only on the prefix that ends with the value
\* window of the first anchored tag: whatever follows that prefix, delimiter
\* or not, validate returns the same.
C10_PrefixDecides ==
  (Validated /\ Found) =>
    LET i == FirstOccurrence(message)
        cut == SubSeq(message, 1, i + 7)
    IN  WindowComplete(message, i) =>
          \A s \in Suffixes :
            IsUtf8(cut \o s) => validate(cut \o s) = outcome

\* A message that stops right after the value, with no delimiter, matched.
C10_Witness ==
  /\ outcome = OkTrue
  /\ Found
  /\ Len(message) = FirstOccurrence(message) + 7
====
